---- MODULE Spec2Model ----
(***************************************************************************)
(* Model of the Go side of the libpurple <-> whatsmeow bridge              *)
(* (whatsmeow_bridge.go): the account registry `accounts` guarded by the   *)
(* mutex `mu`, the exported commands called from C, the goroutine that     *)
(* drains the QR channel, and handleEvent, the handler registered on the   *)
(* whatsmeow client.  The whatsmeow client itself is the environment: its  *)
(* calls succeed or fail nondeterministically and it emits events on its   *)
(* own goroutines.                                                         *)
(***************************************************************************)
EXTENDS Integers, Sequences, FiniteSets, TLC

\* ------------------------------------------------------------------ bounds
MaxClients == 2      \* whatsmeow clients constructed over a run
MaxPairEvents == 2   \* items the engine puts on QR channels over a run
MaxEvents == 1       \* events the engine hands to handlers over a run

\* two host threads: every command pair that can overlap is covered
Threads == {1, 2}
\* two PurpleAccount pointers used as keys
Ids == {1, 2}
Clients == 1..MaxClients

NoThread == 0        \* mu is unlocked
NoClient == 0        \* no *accountState (map miss)
NoId == 0
NoRet == 2           \* no value returned (call running, or a void function)

\* jid strings handed to types.ParseJID; it returns err for the second one
Jids == {"good", "bad"}
\* values of the C.int typing of gowhatsapp_go_send_typing
TypingFlags == {0, 1, 2}
\* message ids handed to gowhatsapp_go_mark_read
MsgIds == {"", "m1"}
\* QRChannelItem.Event values; "other" stands for every value the switch
\* of the consumer goroutine has no case for
PairKinds == {"code", "success", "timeout", "other"}
\* dynamic types of evt in handleEvent; "Other" has no case at all
EventKinds == {"Message", "Connected", "Disconnected", "LoggedOut",
               "Presence", "ChatPresence", "Receipt", "Other"}
NoEvent == "none"

\* A Go string, modelled as the sequence of its pieces between NUL bytes:
\* << "Ann" >> is "Ann", << "An", "n" >> is "An\x00n", << "" >> is "".
GoString(s) == << s >>

\* C.CString(s) as the C side reads it: the copy holds every byte of s and
\* a terminating NUL, and a char * ends at its first NUL
CString(s) == << s[1] >>

\* widths of Go's int64 and of C's long on the LP64 targets of the Makefile
Int64Bits == 64
LongBits == 64

\* C.long(n) for an int64 n: the value, reduced to the width of long
CLong(n) ==
    IF LongBits >= Int64Bits
       THEN n
       ELSE ((n + 2 ^ (LongBits - 1)) % (2 ^ LongBits)) - 2 ^ (LongBits - 1)

\* a flag that is never set
CFlagAlwaysZero(b) == 0

\* the C.int set from a Go bool: C.int(0), then 1 under the if
CFlag(b) == IF b THEN 1 ELSE 0

\* types.MessageInfo as handleMessage reads it: Sender.String(),
\* Chat.String(), ID, PushName, Timestamp.Unix(), IsFromMe, IsGroup
Infos ==
    [sender : {<< "a@s.whatsapp.net" >>, << "b@s.whatsapp.net" >>},
     chat : {<< "a@s.whatsapp.net" >>, << "g@g.us" >>},
     id : {<< "3EB0" >>},
     pushName : {<< "" >>, << "Ann" >>, << "An", "n" >>},
     ts : {0, 1700000000},
     fromMe : BOOLEAN,
     isGroup : BOOLEAN]

NoInfo ==
    [sender |-> << "" >>, chat |-> << "" >>, id |-> << "" >>,
     pushName |-> << "" >>, ts |-> 0, fromMe |-> FALSE, isGroup |-> FALSE]

\* the info of the events delivered while sessions come and go
SampleInfo ==
    [sender |-> << "a@s.whatsapp.net" >>, chat |-> << "a@s.whatsapp.net" >>,
     id |-> << "3EB0" >>, pushName |-> << "Ann" >>, ts |-> 1700000000,
     fromMe |-> FALSE, isGroup |-> FALSE]

\* events.LoggedOut.Reason as %s prints it
Reasons == {"401: logged out from another device", "403: account banned"}
\* events.Presence.From.String()
PresenceFroms == {<< "a@s.whatsapp.net" >>}
\* events.ChatPresence.State: types.ChatPresenceComposing and ...Paused
ChatStates == {"composing", "paused"}
\* QRChannelItem.Code of a "code" item: ref and three base64 keys, joined
\* by commas
Codes == {<< "2@ref1,bm9pc2U=,aWQ=,YWR2" >>, << "2@ref2,bm9pc2U=,aWQ=,YWR2" >>}
SampleCode == << "2@ref1,bm9pc2U=,aWQ=,YWR2" >>
NoCode == << "" >>

\* The content of an events.Message as handleMessage reads it.  conv is
\* GetConversation(), "" when the field is unset; the optional sub-messages
\* are << >> for nil and << s >> for a sub-message whose caption, title or
\* text is s; sticker and audio are tested for nil only.  info is v.Info
\* (the MessageSource of a ChatPresence); reason, unavailable, from and
\* state are the fields handleEvent reads from the other events.
Messages ==
    [conv : {"", "hi"},
     ext : {<< >>, << "" >>, << "t" >>},
     img : {<< >>, << "" >>, << "c" >>},
     vid : {<< >>, << "v" >>},
     doc : {<< >>, << "d" >>},
     sticker : BOOLEAN,
     audio : BOOLEAN,
     reaction : {<< >>, << "r" >>},
     info : {SampleInfo},
     reason : {""},
     unavailable : {FALSE},
     from : {<< "" >>},
     state : {""}]

\* a message with nothing set; also the content of the events that are not
\* messages
NoMsg ==
    [conv |-> "", ext |-> << >>, img |-> << >>, vid |-> << >>,
     doc |-> << >>, sticker |-> FALSE, audio |-> FALSE, reaction |-> << >>,
     info |-> SampleInfo, reason |-> "", unavailable |-> FALSE,
     from |-> << "" >>, state |-> ""]

\* the messages delivered while sessions come and go: a plain text and an
\* extended text message with an empty text
SampleMessages ==
    {[NoMsg EXCEPT !.conv = "hi"], [NoMsg EXCEPT !.ext = << "" >>]}

VARIABLES
    mu,           \* sync.Mutex mu: the thread holding it, or NoThread
    accounts,     \* map accounts: id -> client (its *accountState), or NoClient
    nextClient,   \* number of accountState/whatsmeow.Client pairs built so far
    owner,        \* client -> the account captured by its handler closures
    pairing,      \* client -> client.Store.ID == nil
    cancelled,    \* client -> state.cancel() has been called
    connected,    \* client -> client.Connect() returned nil
    disconnects,  \* client -> number of client.Disconnect() calls
    qrChan,       \* client -> "nil" | "open" | "closed": channel of GetQRChannel
    qrCount,      \* number of items received from QR channels so far
    cons,         \* client -> the goroutine over qrChan: "none", "recv",
                  \*           "done", the C callback it is executing, or
                  \*           "no_case" at the end of the switch of an item
                  \*           without a case
    consItem,     \* client -> [evt, args]: the item the goroutine over
                  \*           qrChan is handling, and the arguments of the
                  \*           C callback it is executing for it
    trans,        \* client -> [st, ev, m, args]: handleEvent running for
                  \*           the client, at st, on an event of kind ev
                  \*           (then inside the callback ev, called with
                  \*           args) with content m
    evCount,      \* number of events handed to handlers so far
    scen,         \* client -> how far the engine has followed the first-time
                  \*           pairing scenario: code(s), success, Connected
    outConnected, \* client -> number of C.bridge_connected calls for it
    outMessages,  \* client -> number of C.bridge_receive_message calls for it
    copies,       \* number of C.CString copies not yet passed to C.free
    pc,           \* thread -> position inside the exported function
    call,         \* thread -> arguments, locals and result of its call
    loginHist,    \* id -> history of the logins on id since the last
                  \*       logout on id: "none" returned, "ok" one returned
                  \*       0, "fail" all of them returned -1
    recording     \* whether the behaviour keeps loginHist (never changes)

vars == << mu, accounts, nextClient, owner, pairing, cancelled, connected,
           disconnects, qrChan, qrCount, cons, consItem, trans, evCount,
           scen, outConnected, outMessages, copies,
           pc, call, loginHist, recording >>

clientVars == << owner, pairing, cancelled, connected, disconnects >>
engineVars == << qrChan, qrCount, cons, consItem, trans, evCount, scen,
                outConnected, outMessages >>
histVars == << loginHist, recording >>

\* the record of a thread that has not been called yet
NoCall ==
    [op |-> "none", id |-> NoId, arg |-> "", typing |-> 0, msgID |-> "",
     h |-> NoClient, found |-> FALSE, perr |-> FALSE, ret |-> NoRet,
     ecalls |-> 0, errs |-> 0, sent |-> "none"]

\* arg is the jid argument; sent is the chat presence handed to the engine
NewCall(o, i, a, ty) ==
    [op |-> o, id |-> i, arg |-> a, typing |-> ty, msgID |-> "",
     h |-> NoClient, found |-> FALSE, perr |-> FALSE, ret |-> NoRet,
     ecalls |-> 0, errs |-> 0, sent |-> "none"]

\* no C callback is running
NoArgs == [account |-> NoId]

\* the goroutine over qrChan is handling no item
NoItem == [evt |-> [Event |-> "", Code |-> << "" >>], args |-> NoArgs]

\* no handleEvent is running
NoTrans == [st |-> "idle", ev |-> NoEvent, m |-> NoMsg, args |-> NoArgs]

\* the state after package initialisation: an empty registry, no goroutine
Start ==
    /\ mu = NoThread
    /\ accounts = [i \in Ids |-> NoClient]
    /\ nextClient = 0
    /\ owner = [h \in Clients |-> NoId]
    /\ pairing = [h \in Clients |-> FALSE]
    /\ cancelled = [h \in Clients |-> FALSE]
    /\ connected = [h \in Clients |-> FALSE]
    /\ disconnects = [h \in Clients |-> 0]
    /\ qrChan = [h \in Clients |-> "nil"]
    /\ qrCount = 0
    /\ cons = [h \in Clients |-> "none"]
    /\ consItem = [h \in Clients |-> NoItem]
    /\ trans = [h \in Clients |-> NoTrans]
    /\ evCount = 0
    /\ scen = [h \in Clients |-> "start"]
    /\ outConnected = [h \in Clients |-> 0]
    /\ outMessages = [h \in Clients |-> 0]
    /\ copies = 0
    /\ pc = [t \in Threads |-> "idle"]
    /\ call = [t \in Threads |-> NoCall]
    /\ loginHist = [i \in Ids |-> "none"]

Init == Start /\ recording = FALSE

\* types.ParseJID(jidStr) returned an error
ParseJIDFails(jid) == jid = "bad"

\* ---------------------------------------------------------------- helpers
Goto(t, l) == pc' = [pc EXCEPT ![t] = l]

\* the exported function running on thread t returns v; its locals die
Return(t, v) ==
    /\ pc' = [pc EXCEPT ![t] = "idle"]
    /\ call' = [call EXCEPT ![t].ret = v, ![t].id = NoId, ![t].h = NoClient,
                            ![t].arg = "", ![t].typing = 0,
                            ![t].msgID = ""]

\* the same, after one more engine call
ReturnAfterCall(t, v) ==
    /\ pc' = [pc EXCEPT ![t] = "idle"]
    /\ call' = [call EXCEPT ![t].ret = v, ![t].id = NoId, ![t].h = NoClient,
                            ![t].arg = "", ![t].typing = 0,
                            ![t].msgID = "", ![t].ecalls = @ + 1]

\* the C.CString calls made for the arguments of a C callback: five in
\* handleMessage, one in reportError, one for cReason, cJID and cCode
CopiesMade(cb) ==
    CASE cb = "receive_message" -> 5
      [] cb \in {"error", "show_qr_code", "presence_update",
                 "typing_notification"} -> 1
      [] OTHER -> 0

\* a handleMessage that does not free cPushName
CopiesFreedButOne(cb) ==
    CASE cb = "receive_message" -> 4
      [] cb \in {"error", "show_qr_code", "presence_update",
                 "typing_notification"} -> 1
      [] OTHER -> 0

\* the C.free calls made after a C callback has returned
CopiesFreed(cb) ==
    CASE cb = "receive_message" -> 5
      [] cb \in {"error", "show_qr_code", "presence_update",
                 "typing_notification"} -> 1
      [] OTHER -> 0

\* reportError copies msg and enters C.bridge_error
ReportError == copies' = copies + CopiesMade("error")

\* C.bridge_error returns to reportError, which frees the copy
ReportErrorReturn == copies' = copies - CopiesFreed("error")

\* history: gowhatsapp_go_login on id returns v
LoginReturns(id, v) ==
    loginHist' = IF recording
                    THEN [loginHist EXCEPT ![id] =
                            IF v = 0 \/ @ = "ok" THEN "ok" ELSE "fail"]
                    ELSE loginHist

\* history: gowhatsapp_go_logout has removed the record of id, if any
LogoutRemoves(id) ==
    loginHist' = IF recording
                    THEN [loginHist EXCEPT ![id] = "none"]
                    ELSE loginHist

\* ------------------------------------------------------ gowhatsapp_go_login
CallLogin(t, id) ==
    /\ pc[t] = "idle"
    /\ Goto(t, "login_lock")
    /\ call' = [call EXCEPT ![t] = NewCall("login", id, "", 0)]
    /\ UNCHANGED << mu, accounts, nextClient, clientVars, engineVars,
                    histVars, copies >>

\* The body of gowhatsapp_go_login up to `if client.Store.ID == nil`, given
\* the outcome of the `exists` test: sqlstore.New, GetFirstDevice, NewClient,
\* accounts[key] = state and AddEventHandler, all under mu; fresh says
\* whether whatsmeow.NewClient is called for the record
LoginSetup(t, exists, fresh) ==
    /\ pc[t] = "login_lock"
    /\ mu = NoThread
    /\ LET id == call[t].id IN
       IF exists
          THEN \* return -1 // already logged in
               /\ Return(t, -1)
               /\ LoginReturns(id, -1)
               /\ UNCHANGED << mu, accounts, nextClient, owner, pairing,
                               copies >>
          ELSE \/ \* sqlstore.New or container.GetFirstDevice returned err
                  /\ mu' = t
                  /\ Goto(t, "login_err")
                  /\ call' = [call EXCEPT ![t].errs = @ + 1]
                  /\ ReportError
                  /\ UNCHANGED << accounts, nextClient, owner, pairing,
                                  loginHist >>
               \/ \E needQR \in BOOLEAN :
                    LET h == IF fresh \/ nextClient = 0 THEN nextClient + 1
                                                        ELSE nextClient
                    IN
                    /\ h <= MaxClients
                    /\ mu' = t
                    /\ nextClient' = h
                    /\ accounts' = [accounts EXCEPT ![id] = h]
                    /\ owner' = [owner EXCEPT ![h] = id]
                    /\ pairing' = [pairing EXCEPT ![h] = needQR]
                    /\ call' = [call EXCEPT ![t].h = h]
                    /\ Goto(t, IF needQR THEN "login_qr" ELSE "login_connect")
                    /\ UNCHANGED << loginHist, copies >>
    /\ UNCHANGED << cancelled, connected, disconnects, engineVars,
                    recording >>

\* a login whose `exists` test passes over records of unconnected clients
LoginBeginIgnoresUnconnected(t) ==
    LoginSetup(t, /\ accounts[call[t].id] # NoClient
                  /\ connected[accounts[call[t].id]], TRUE)

\* a login that skips the `exists` test
LoginBeginNoExistsTest(t) == LoginSetup(t, FALSE, TRUE)

\* a login that puts the client built last into the new record
LoginBeginReusesClient(t) ==
    LoginSetup(t, accounts[call[t].id] # NoClient, FALSE)

\* mu.Lock(); defer mu.Unlock(); if _, exists := accounts[key]; exists
LoginBegin(t) == LoginSetup(t, accounts[call[t].id] # NoClient, TRUE)

\* a login that returns -1 on a GetQRChannel error without reporting it
LoginQRSilentFailure(t) ==
    /\ pc[t] = "login_qr"
    /\ \/ /\ Goto(t, "login_err")
          /\ call' = [call EXCEPT ![t].ecalls = @ + 1]
          /\ UNCHANGED << qrChan, copies >>
       \/ /\ qrChan' = [qrChan EXCEPT ![call[t].h] = "open"]
          /\ call' = [call EXCEPT ![t].ecalls = @ + 1]
          /\ Goto(t, "login_connect")
          /\ UNCHANGED copies
    /\ UNCHANGED << mu, accounts, nextClient, clientVars, qrCount, cons,
                    trans, evCount, scen, outConnected, outMessages,
                    consItem, histVars >>

\* qrChan, err := client.GetQRChannel(ctx)
LoginQR(t) ==
    /\ pc[t] = "login_qr"
    /\ \/ /\ Goto(t, "login_err")
          /\ call' = [call EXCEPT ![t].ecalls = @ + 1, ![t].errs = @ + 1]
          /\ ReportError
          /\ UNCHANGED qrChan
       \/ /\ qrChan' = [qrChan EXCEPT ![call[t].h] = "open"]
          /\ call' = [call EXCEPT ![t].ecalls = @ + 1]
          /\ Goto(t, "login_connect")
          /\ UNCHANGED copies
    /\ UNCHANGED << mu, accounts, nextClient, clientVars, qrCount, cons,
                    trans, evCount, scen, outConnected, outMessages, consItem,
                    histVars >>

\* client.Connect() in either branch; on success the pairing branch starts
\* the goroutine over qrChan, and the function returns 0
LoginConnect(t) ==
    /\ pc[t] = "login_connect"
    /\ LET h == call[t].h IN
       \/ /\ Goto(t, "login_err")
          /\ call' = [call EXCEPT ![t].ecalls = @ + 1, ![t].errs = @ + 1]
          /\ ReportError
          /\ UNCHANGED << mu, connected, cons, loginHist >>
       \/ /\ connected' = [connected EXCEPT ![h] = TRUE]
          /\ cons' = IF pairing[h] THEN [cons EXCEPT ![h] = "recv"] ELSE cons
          /\ ReturnAfterCall(t, 0)
          /\ LoginReturns(call[t].id, 0)
          /\ mu' = NoThread
          /\ UNCHANGED copies
    /\ UNCHANGED << accounts, nextClient, owner, pairing, cancelled,
                    disconnects, qrChan, qrCount, trans, evCount, scen,
                    outConnected, outMessages, consItem, recording >>

\* reportError(account, ...) is inside C.bridge_error; then return -1
LoginErr(t) ==
    /\ pc[t] = "login_err"
    /\ Return(t, -1)
    /\ LoginReturns(call[t].id, -1)
    /\ ReportErrorReturn
    /\ mu' = NoThread
    /\ UNCHANGED << accounts, nextClient, clientVars, engineVars,
                    recording >>

\* ----------------------------------------------------- gowhatsapp_go_logout
CallLogout(t, id) ==
    /\ pc[t] = "idle"
    /\ Goto(t, "logout_lock")
    /\ call' = [call EXCEPT ![t] = NewCall("logout", id, "", 0)]
    /\ UNCHANGED << mu, accounts, nextClient, clientVars, engineVars,
                    histVars, copies >>

\* The locked part of gowhatsapp_go_logout and the test that follows it,
\* `ok && state.client != nil` (client is never nil in a record); del says
\* whether delete(accounts, key) runs, unlock whether mu.Unlock() runs
LogoutLocked(t, del, unlock) ==
    /\ pc[t] = "logout_lock"
    /\ mu = NoThread
    /\ LET id == call[t].id
           h == accounts[id]
       IN  /\ accounts' = IF del THEN [accounts EXCEPT ![id] = NoClient]
                                 ELSE accounts
           /\ LogoutRemoves(id)
           /\ IF h # NoClient
                 THEN /\ call' = [call EXCEPT ![t].h = h, ![t].found = TRUE]
                      /\ Goto(t, "logout_cancel")
                 ELSE Return(t, NoRet)
    /\ mu' = IF unlock THEN NoThread ELSE t
    /\ UNCHANGED << nextClient, clientVars, engineVars, recording, copies >>

\* a logout that leaves the record in the registry
LogoutRemoveKeepsRecord(t) == LogoutLocked(t, FALSE, TRUE)

\* a logout that returns from the locked part without mu.Unlock()
LogoutRemoveKeepsLock(t) == LogoutLocked(t, TRUE, FALSE)

\* mu.Lock(); state, ok := accounts[key]; if ok { delete(accounts, key) };
\* mu.Unlock()
LogoutRemove(t) == LogoutLocked(t, TRUE, TRUE)

\* a logout that goes on to Disconnect without state.cancel()
LogoutCancelSkipped(t) ==
    /\ pc[t] = "logout_cancel"
    /\ Goto(t, "logout_disconnect")
    /\ UNCHANGED << mu, accounts, nextClient, clientVars, engineVars, call,
                    histVars, copies >>

\* state.cancel()
LogoutCancel(t) ==
    /\ pc[t] = "logout_cancel"
    /\ cancelled' = [cancelled EXCEPT ![call[t].h] = TRUE]
    /\ Goto(t, "logout_disconnect")
    /\ UNCHANGED << mu, accounts, nextClient, owner, pairing, connected,
                    disconnects, engineVars, call, histVars, copies >>

\* state.client.Disconnect(), then the function returns
LogoutDisconnect(t) ==
    /\ pc[t] = "logout_disconnect"
    /\ disconnects' = [disconnects EXCEPT ![call[t].h] = @ + 1]
    /\ ReturnAfterCall(t, NoRet)
    /\ UNCHANGED << mu, accounts, nextClient, owner, pairing, cancelled,
                    connected, engineVars, histVars, copies >>

\* ----------------------------------------------- gowhatsapp_go_send_message
CallSend(t, id, jid) ==
    /\ pc[t] = "idle"
    /\ Goto(t, "send_lock")
    /\ call' = [call EXCEPT ![t] = NewCall("send", id, jid, 0)]
    /\ UNCHANGED << mu, accounts, nextClient, clientVars, engineVars,
                    histVars, copies >>

\* gowhatsapp_go_send_message up to the engine call; stop says whether the
\* `if err != nil` after types.ParseJID returns
SendParse(t, stop) ==
    /\ pc[t] = "send_lock"
    /\ mu = NoThread
    /\ LET h == accounts[call[t].id] IN
       IF h = NoClient
          THEN Return(t, -1) /\ UNCHANGED copies
          ELSE IF ParseJIDFails(call[t].arg)
                  THEN /\ Goto(t, IF stop THEN "send_err" ELSE "send_engine")
                       /\ call' = [call EXCEPT ![t].h = h, ![t].found = TRUE,
                                               ![t].perr = TRUE,
                                               ![t].errs = @ + 1]
                       /\ ReportError
                  ELSE /\ Goto(t, "send_engine")
                       /\ call' = [call EXCEPT ![t].h = h, ![t].found = TRUE]
                       /\ UNCHANGED copies
    /\ UNCHANGED << mu, accounts, nextClient, clientVars, engineVars,
                    histVars >>

\* a send that reports the address error and sends all the same
SendLookupIgnoresParseError(t) == SendParse(t, FALSE)

\* mu.Lock(); state, ok := accounts[key]; mu.Unlock(); the !ok return;
\* types.ParseJID and the reportError and return on its failure
SendLookup(t) == SendParse(t, TRUE)

\* state.client.SendMessage(...) and the reportError on its failure
SendEngine(t) ==
    /\ pc[t] = "send_engine"
    /\ \/ /\ Goto(t, "send_err")
          /\ call' = [call EXCEPT ![t].ecalls = @ + 1, ![t].errs = @ + 1]
          /\ ReportError
       \/ ReturnAfterCall(t, 0) /\ UNCHANGED copies
    /\ UNCHANGED << mu, accounts, nextClient, clientVars, engineVars,
                    histVars >>

\* reportError is inside C.bridge_error; then return -1
SendErr(t) ==
    /\ pc[t] = "send_err"
    /\ Return(t, -1)
    /\ ReportErrorReturn
    /\ UNCHANGED << mu, accounts, nextClient, clientVars, engineVars,
                    histVars >>

\* ------------------------------------------------ gowhatsapp_go_send_typing
CallTyping(t, id, jid, typing) ==
    /\ pc[t] = "idle"
    /\ Goto(t, "typing_lock")
    /\ call' = [call EXCEPT ![t] = NewCall("typing", id, jid, typing)]
    /\ UNCHANGED << mu, accounts, nextClient, clientVars, engineVars,
                    histVars, copies >>

\* the lookup under mu, the !ok return and the ParseJID return
TypingLookup(t) ==
    /\ pc[t] = "typing_lock"
    /\ mu = NoThread
    /\ LET h == accounts[call[t].id] IN
       IF h = NoClient
          THEN Return(t, NoRet)
          ELSE IF ParseJIDFails(call[t].arg)
                  THEN /\ pc' = [pc EXCEPT ![t] = "idle"]
                       /\ call' = [call EXCEPT ![t].found = TRUE,
                                               ![t].perr = TRUE,
                                               ![t].id = NoId, ![t].arg = "",
                                               ![t].typing = 0]
                  ELSE /\ Goto(t, "typing_engine")
                       /\ call' = [call EXCEPT ![t].h = h, ![t].found = TRUE]
    /\ UNCHANGED << mu, accounts, nextClient, clientVars, engineVars,
                    histVars, copies >>

\* state.client.SendChatPresence(targetJID, presence, media), then the
\* function returns
TypingSend(t, presence) ==
    /\ pc[t] = "typing_engine"
    /\ pc' = [pc EXCEPT ![t] = "idle"]
    /\ call' = [call EXCEPT ![t].id = NoId, ![t].h = NoClient,
                            ![t].arg = "", ![t].typing = 0,
                            ![t].ecalls = @ + 1, ![t].sent = presence]
    /\ UNCHANGED << mu, accounts, nextClient, clientVars, engineVars,
                    histVars, copies >>

\* a send_typing that sends Composing whatever the flag
TypingEngineAlwaysComposing(t) == TypingSend(t, "composing")

\* if typing != 0 { ...ChatPresenceComposing... } else { ...Paused... }
TypingEngine(t) ==
    TypingSend(t, IF call[t].typing # 0 THEN "composing" ELSE "paused")

\* -------------------------------------------------- gowhatsapp_go_mark_read
\* jid stands for the chat and sender strings: "bad" when ParseJID fails on
\* one of them
CallMarkRead(t, id, jid, msgID) ==
    /\ pc[t] = "idle"
    /\ Goto(t, "read_lock")
    /\ call' = [call EXCEPT ![t] =
                  [NewCall("read", id, jid, 0) EXCEPT !.msgID = msgID]]
    /\ UNCHANGED << mu, accounts, nextClient, clientVars, engineVars,
                    histVars, copies >>

\* gowhatsapp_go_mark_read up to the engine call; stop says whether a
\* ParseJID error makes the function return
MarkReadCheck(t, stop) ==
    /\ pc[t] = "read_lock"
    /\ mu = NoThread
    /\ LET h == accounts[call[t].id]
           perr == ParseJIDFails(call[t].arg)
       IN
       IF h = NoClient
          THEN Return(t, NoRet)
          ELSE IF call[t].msgID = "" \/ (stop /\ perr)
                  THEN /\ pc' = [pc EXCEPT ![t] = "idle"]
                       /\ call' = [call EXCEPT ![t].found = TRUE,
                                               ![t].id = NoId, ![t].arg = "",
                                               ![t].msgID = ""]
                  ELSE /\ Goto(t, "read_engine")
                       /\ call' = [call EXCEPT ![t].h = h, ![t].found = TRUE,
                                               ![t].perr = perr]
    /\ UNCHANGED << mu, accounts, nextClient, clientVars, engineVars,
                    histVars, copies >>

\* a mark_read that gives up when a jid does not parse
MarkReadLookupStopsOnParseError(t) == MarkReadCheck(t, TRUE)

\* the lookup under mu, `!ok || state.client == nil || msgID == ""`, and
\* the two ParseJID calls whose errors are discarded
MarkReadLookup(t) == MarkReadCheck(t, FALSE)

\* state.client.MarkRead([]types.MessageID{msgID}, chatJID, senderJID, ...)
MarkReadEngine(t) ==
    /\ pc[t] = "read_engine"
    /\ ReturnAfterCall(t, NoRet)
    /\ UNCHANGED << mu, accounts, nextClient, clientVars, engineVars,
                    histVars, copies >>

\* ------------------------------------------------- the goroutine over qrChan
\* a switch without the "timeout" case
PairCallbackNoTimeout(k) ==
    CASE k = "code" -> "show_qr_code"
      [] k = "success" -> "connected"
      [] OTHER -> NoEvent

\* the outward call the goroutine makes for an item: the switch evt.Event
PairCallback(k) ==
    CASE k = "code" -> "show_qr_code"
      [] k = "success" -> "connected"
      [] k = "timeout" -> "error"
      [] OTHER -> NoEvent

\* the first-time pairing scenario as the goroutine sees it: code items,
\* then a success item
ScenAfterItem(s, k) ==
    CASE s \in {"start", "code"} /\ k = "code" -> "code"
      [] s = "code" /\ k = "success" -> "paired"
      [] OTHER -> "off"

\* the arguments of the outward call for an item of kind k with code c,
\* made by the goroutine of client h: account is the account of the login
\* that started it
PairArgs(h, k, c) ==
    CASE k = "code" -> [account |-> owner[h], code |-> CString(c)]
      [] k = "success" -> [account |-> owner[h]]
      [] k = "timeout" ->
            [account |-> owner[h],
             message |->
                CString(GoString("QR code timed out - reconnect to retry"))]
      [] OTHER -> NoArgs

\* for evt := range qrChan { switch evt.Event { ... } }: the engine hands
\* over an item of kind k with code c and the goroutine enters the C
\* callback of its case, or finds no case for it
ConsumerRecv(h, k, c) ==
    /\ cons[h] = "recv"
    /\ qrChan[h] = "open"
    /\ qrCount < MaxPairEvents
    /\ qrCount' = qrCount + 1
    /\ scen' = [scen EXCEPT ![h] = ScenAfterItem(@, k)]
    /\ cons' = [cons EXCEPT ![h] =
                  IF PairCallback(k) = NoEvent THEN "no_case"
                                               ELSE PairCallback(k)]
    /\ outConnected' = [outConnected EXCEPT ![h] =
                          IF PairCallback(k) = "connected" THEN @ + 1 ELSE @]
    /\ consItem' = [consItem EXCEPT ![h] =
                      [evt |-> [Event |-> k, Code |-> c],
                       args |-> PairArgs(h, k, c)]]
    /\ copies' = copies + CopiesMade(PairCallback(k))
    /\ UNCHANGED << mu, accounts, nextClient, clientVars, qrChan, trans,
                    outMessages,
                    evCount, pc, call, histVars >>

\* the C callback returns to the goroutine (and C.free runs), or the switch
\* ends without a case; the loop goes on to the next item
ConsumerReturn(h) ==
    /\ cons[h] \notin {"none", "recv", "done"}
    /\ cons' = [cons EXCEPT ![h] = "recv"]
    /\ consItem' = [consItem EXCEPT ![h] = NoItem]
    /\ copies' = copies - CopiesFreed(cons[h])
    /\ UNCHANGED << mu, accounts, nextClient, clientVars, qrChan, qrCount,
                    trans, evCount, scen, outConnected, outMessages, pc,
                    call, histVars >>

\* the engine closes the channel
EngineCloseQR(h) ==
    /\ qrChan[h] = "open"
    /\ qrChan' = [qrChan EXCEPT ![h] = "closed"]
    /\ UNCHANGED << mu, accounts, nextClient, clientVars, qrCount, cons,
                    trans, evCount, scen, outConnected, outMessages,
                    consItem, pc,
                    call, histVars, copies >>

\* a loop that ends only once the session has been cancelled as well
ConsumerExitWhenCancelled(h) ==
    /\ cons[h] = "recv"
    /\ qrChan[h] = "closed"
    /\ cancelled[h]
    /\ cons' = [cons EXCEPT ![h] = "done"]
    /\ UNCHANGED << mu, accounts, nextClient, clientVars, qrChan, qrCount,
                    trans, evCount, scen, outConnected, outMessages,
                    consItem, pc, call, histVars, copies >>

\* the range loop ends once the channel is closed
ConsumerExit(h) ==
    /\ cons[h] = "recv"
    /\ qrChan[h] = "closed"
    /\ cons' = [cons EXCEPT ![h] = "done"]
    /\ UNCHANGED << mu, accounts, nextClient, clientVars, qrChan, qrCount,
                    trans, evCount, scen, outConnected, outMessages,
                    consItem, pc,
                    call, histVars, copies >>

\* ------------------------------------------------------------- handleEvent
\* the scenario continues with the engine reporting Connected once
ScenAfterEvent(s, k) ==
    CASE k # "Connected" -> s
      [] s = "paired" -> "connected"
      [] OTHER -> "off"

\* a classification that looks at the image before the conversation string
ClassifyMessageImageFirst(m) ==
    IF m.img # << >>
       THEN [branch |-> "image", text |-> "[Image] " \o m.img[1]]
    ELSE IF m.conv # ""
       THEN [branch |-> "conversation", text |-> m.conv]
    ELSE IF m.ext # << >>
       THEN [branch |-> "extended", text |-> m.ext[1]]
    ELSE IF m.vid # << >>
       THEN [branch |-> "video", text |-> "[Video] " \o m.vid[1]]
    ELSE IF m.doc # << >>
       THEN [branch |-> "document", text |-> "[Document] " \o m.doc[1]]
    ELSE IF m.sticker
       THEN [branch |-> "sticker", text |-> "[Sticker]"]
    ELSE IF m.audio
       THEN [branch |-> "audio", text |-> "[Voice Message]"]
    ELSE IF m.reaction # << >>
       THEN [branch |-> "reaction",
             text |-> "[Reaction: " \o m.reaction[1] \o "]"]
    ELSE [branch |-> "unsupported", text |-> "[Unsupported message type]"]

\* handleMessage lines 291-310: the branch taken and the text extracted,
\* as the if / else-if chain computes them
ClassifyMessage(m) ==
    IF m.conv # ""
       THEN [branch |-> "conversation", text |-> m.conv]
    ELSE IF m.ext # << >>
       THEN [branch |-> "extended", text |-> m.ext[1]]
    ELSE IF m.img # << >>
       THEN [branch |-> "image", text |-> "[Image] " \o m.img[1]]
    ELSE IF m.vid # << >>
       THEN [branch |-> "video", text |-> "[Video] " \o m.vid[1]]
    ELSE IF m.doc # << >>
       THEN [branch |-> "document", text |-> "[Document] " \o m.doc[1]]
    ELSE IF m.sticker
       THEN [branch |-> "sticker", text |-> "[Sticker]"]
    ELSE IF m.audio
       THEN [branch |-> "audio", text |-> "[Voice Message]"]
    ELSE IF m.reaction # << >>
       THEN [branch |-> "reaction",
             text |-> "[Reaction: " \o m.reaction[1] \o "]"]
    ELSE [branch |-> "unsupported", text |-> "[Unsupported message type]"]

\* the engine invokes the closure registered by AddEventHandler with an
\* event of kind k; m is its content if it is a message
EngineEmit(h, k, m) ==
    /\ connected[h]
    /\ disconnects[h] = 0
    /\ trans[h].st = "idle"
    /\ evCount < MaxEvents
    /\ evCount' = evCount + 1
    /\ scen' = [scen EXCEPT ![h] = ScenAfterEvent(@, k)]
    /\ trans' = [trans EXCEPT ![h] =
                      [st |-> "handle", ev |-> k, m |-> m, args |-> NoArgs]]
    /\ UNCHANGED << mu, accounts, nextClient, clientVars, qrChan, qrCount,
                    cons, outConnected, outMessages, consItem, pc, call,
                    histVars,
                    copies >>

\* a handler that hands every message to the host, whatever its text
EventCallbackNoEmptyTest(k, m) ==
    CASE k = "Message" -> "receive_message"
      [] k = "Connected" -> "connected"
      [] k = "Disconnected" -> "disconnected"
      [] k = "LoggedOut" -> "error"
      [] k = "Presence" -> "presence_update"
      [] k = "ChatPresence" -> "typing_notification"
      [] OTHER -> NoEvent

\* a handler without the case for events.Disconnected
EventCallbackDropsDisconnected(k, m) ==
    IF k = "Disconnected" THEN NoEvent ELSE EventCallbackNoEmptyTest(k, m)

\* the outward call of handleEvent for an event: the switch evt.(type), and
\* handleMessage's return on text == ""
EventCallback(k, m) ==
    CASE k = "Message" ->
            IF ClassifyMessage(m).text = "" THEN NoEvent
                                            ELSE "receive_message"
      [] k = "Connected" -> "connected"
      [] k = "Disconnected" -> "disconnected"
      [] k = "LoggedOut" -> "error"
      [] k = "Presence" -> "presence_update"
      [] k = "ChatPresence" -> "typing_notification"
      [] OTHER -> NoEvent

\* the arguments handleEvent and handleMessage pass to the callback cb for
\* an event with content m: account is the account captured by the closure
\* given to AddEventHandler
CallbackArgs(h, cb, m) ==
    CASE cb = "receive_message" ->
            [account |-> owner[h],
             sender_jid |-> CString(m.info.sender),
             chat_jid |-> CString(m.info.chat),
             text |-> CString(GoString(ClassifyMessage(m).text)),
             message_id |-> CString(m.info.id),
             push_name |-> CString(m.info.pushName),
             timestamp |-> CLong(m.info.ts),
             from_me |-> CFlag(m.info.fromMe),
             is_group |-> CFlag(m.info.isGroup)]
      [] cb = "error" ->
            [account |-> owner[h],
             message |-> CString(GoString("Logged out: " \o m.reason))]
      [] cb = "presence_update" ->
            [account |-> owner[h],
             jid |-> CString(m.from),
             available |-> IF m.unavailable = FALSE THEN 1 ELSE 0]
      [] cb = "typing_notification" ->
            [account |-> owner[h],
             jid |-> CString(m.info.sender),
             composing |-> IF m.state = "composing" THEN 1 ELSE 0]
      [] cb \in {"connected", "disconnected"} -> [account |-> owner[h]]
      [] OTHER -> NoArgs

\* handleEvent enters the C callback of the event's case, or returns
HandleEvent(h) ==
    /\ trans[h].st = "handle"
    /\ LET cb == EventCallback(trans[h].ev, trans[h].m) IN
       /\ trans' = [trans EXCEPT ![h] =
                      IF cb = NoEvent
                         THEN NoTrans
                         ELSE [st |-> "cb", ev |-> cb, m |-> trans[h].m,
                               args |-> CallbackArgs(h, cb, trans[h].m)]]
       /\ outConnected' = [outConnected EXCEPT ![h] =
                             IF cb = "connected" THEN @ + 1 ELSE @]
       /\ outMessages' = [outMessages EXCEPT ![h] =
                            IF cb = "receive_message" THEN @ + 1 ELSE @]
       /\ copies' = copies + CopiesMade(cb)
    /\ UNCHANGED << mu, accounts, nextClient, clientVars, qrChan, qrCount,
                    cons, consItem, evCount, scen, pc, call, histVars >>

\* a handler that deletes the record of its account after reporting
\* events.LoggedOut
HandleEventReturnDropsRecord(h) ==
    /\ trans[h].st = "cb"
    /\ trans' = [trans EXCEPT ![h] = NoTrans]
    /\ copies' = copies - CopiesFreed(trans[h].ev)
    /\ accounts' = IF trans[h].ev = "error"
                      THEN [accounts EXCEPT ![owner[h]] = NoClient]
                      ELSE accounts
    /\ UNCHANGED << mu, nextClient, clientVars, qrChan, qrCount,
                    cons, evCount, scen, outConnected, outMessages,
                    consItem, pc, call, histVars >>

\* the C callback returns and handleEvent returns
HandleEventReturn(h) ==
    /\ trans[h].st = "cb"
    /\ trans' = [trans EXCEPT ![h] = NoTrans]
    /\ copies' = copies - CopiesFreed(trans[h].ev)
    /\ UNCHANGED << mu, accounts, nextClient, clientVars, qrChan, qrCount,
                    cons, evCount, scen, outConnected, outMessages,
                    consItem, pc, call,
                    histVars >>

\* ----------------------------------------------------------- specifications
\* login and logout, the two commands that create and tear down a session,
\* called on thread t for the accounts in ids
SessionStep(t, ids) ==
    \/ \E id \in ids : CallLogin(t, id)
    \/ LoginBegin(t)
    \/ LoginQR(t)
    \/ LoginConnect(t)
    \/ LoginErr(t)
    \/ \E id \in ids : CallLogout(t, id)
    \/ LogoutRemove(t)
    \/ LogoutCancel(t)
    \/ LogoutDisconnect(t)

\* the commands that use a session
UseStep(t) ==
    \/ \E id \in Ids, jid \in Jids : CallSend(t, id, jid)
    \/ SendLookup(t)
    \/ SendEngine(t)
    \/ SendErr(t)
    \/ \E id \in Ids, jid \in Jids, ty \in TypingFlags :
          CallTyping(t, id, jid, ty)
    \/ TypingLookup(t)
    \/ TypingEngine(t)
    \/ \E id \in Ids, jid \in Jids, m \in MsgIds :
          CallMarkRead(t, id, jid, m)
    \/ MarkReadLookup(t)
    \/ MarkReadEngine(t)

\* the goroutine over the QR channel of client h, and the engine feeding it
ConsumerStep(h) ==
    \/ \E k \in PairKinds :
          ConsumerRecv(h, k, IF k = "code" THEN SampleCode ELSE NoCode)
    \/ ConsumerReturn(h)
    \/ EngineCloseQR(h)
    \/ ConsumerExit(h)

\* the engine's goroutines running the event handler of client h
HandlerStep(h) ==
    \/ \E k \in EventKinds \ {"Message"} : EngineEmit(h, k, NoMsg)
    \/ \E m \in SampleMessages : EngineEmit(h, "Message", m)
    \/ HandleEvent(h)
    \/ HandleEventReturn(h)

\* the handler of client h receiving messages of every content
MessageStep(h) ==
    \/ \E m \in Messages : EngineEmit(h, "Message", m)
    \/ HandleEvent(h)
    \/ HandleEventReturn(h)

EngineStep(h) == ConsumerStep(h) \/ HandlerStep(h)

\* login and logout called from both host threads, on both accounts
Next == \E t \in Threads : SessionStep(t, Ids)

Spec == Init /\ [][Next]_vars

\* the same behaviours with the login history kept
InitHist == Start /\ recording = TRUE

HistSpec == InitHist /\ [][Next]_vars

\* a login by thread t on id returns in this step
LoginReturning(t, id) ==
    /\ call[t].op = "login"
    /\ call[t].id = id
    /\ pc[t] # "idle"
    /\ pc'[t] = "idle"

\* libpurple logs in and out from its main loop (thread 1)
MainThread == 1
\* a second thread uses the sessions
UserThread == 2

NextUse ==
    \/ SessionStep(MainThread, Ids)
    \/ UseStep(UserThread)

UseSpec == Init /\ [][NextUse]_vars

\* the engine's goroutines deliver pairing items and events while the main
\* loop logs one account in and out
PairingIds == {1}

NextAsync ==
    \/ SessionStep(MainThread, PairingIds)
    \/ \E h \in Clients : EngineStep(h)

AsyncSpec == Init /\ [][NextAsync]_vars

\* both threads log one account in and out while the goroutines over the
\* QR channels deliver pairing items
NextLive ==
    \/ \E t \in Threads : SessionStep(t, PairingIds)
    \/ \E h \in Clients : ConsumerStep(h)

\* Scheduling: a thread that can take a step inside an exported function
\* eventually takes it (engine calls and C callbacks made by the function
\* return), and a thread blocked in mu.Lock() gets the mutex if it is
\* unlocked again and again (sync.Mutex hands the lock to a starving
\* waiter).  Nothing is assumed about the goroutines over the QR channels: a
\* delivery may stay in flight for ever.
Progress(t) ==
    \/ LoginQR(t)
    \/ LoginConnect(t)
    \/ LoginErr(t)
    \/ LogoutCancel(t)
    \/ LogoutDisconnect(t)

Acquire(t) == LoginBegin(t) \/ LogoutRemove(t)

Fairness ==
    \A t \in Threads : WF_vars(Progress(t)) /\ SF_vars(Acquire(t))

LiveSpec == Init /\ [][NextLive]_vars /\ Fairness

\* the main loop has logged account 1 in with a stored device identity:
\* client 1 is connected and in the registry
LoggedIn ==
    /\ mu = NoThread
    /\ accounts = [i \in Ids |-> IF i = 1 THEN 1 ELSE NoClient]
    /\ nextClient = 1
    /\ owner = [h \in Clients |-> IF h = 1 THEN 1 ELSE NoId]
    /\ pairing = [h \in Clients |-> FALSE]
    /\ cancelled = [h \in Clients |-> FALSE]
    /\ connected = [h \in Clients |-> h = 1]
    /\ disconnects = [h \in Clients |-> 0]
    /\ qrChan = [h \in Clients |-> "nil"]
    /\ qrCount = 0
    /\ cons = [h \in Clients |-> "none"]
    /\ consItem = [h \in Clients |-> NoItem]
    /\ trans = [h \in Clients |-> NoTrans]
    /\ evCount = 0
    /\ scen = [h \in Clients |-> "start"]
    /\ outConnected = [h \in Clients |-> 0]
    /\ outMessages = [h \in Clients |-> 0]
    /\ copies = 0
    /\ pc = [t \in Threads |-> "idle"]
    /\ call = [t \in Threads |->
                 IF t = MainThread
                    THEN [NoCall EXCEPT !.op = "login", !.ret = 0,
                                        !.ecalls = 1]
                    ELSE NoCall]
    /\ loginHist = [i \in Ids |-> "none"]
    /\ recording = FALSE

\* messages of every content arrive for the logged-in account
NextMessage == \E h \in Clients : MessageStep(h)

MessageSpec == LoggedIn /\ [][NextMessage]_vars

\* the handler of client h receiving events of every kind, with every value
\* of the fields handleEvent and handleMessage read
TranslateStep(h) ==
    \/ \E i \in Infos :
          EngineEmit(h, "Message", [NoMsg EXCEPT !.conv = "hi", !.info = i])
    \/ \E r \in Reasons :
          EngineEmit(h, "LoggedOut", [NoMsg EXCEPT !.reason = r])
    \/ \E u \in BOOLEAN, f \in PresenceFroms :
          EngineEmit(h, "Presence",
                     [NoMsg EXCEPT !.unavailable = u, !.from = f])
    \/ \E st \in ChatStates :
          EngineEmit(h, "ChatPresence", [NoMsg EXCEPT !.state = st])
    \/ \E k \in {"Connected", "Disconnected", "Receipt", "Other"} :
          EngineEmit(h, k, NoMsg)
    \/ HandleEvent(h)
    \/ HandleEventReturn(h)

NextTranslate == \E h \in Clients : TranslateStep(h)

\* events of every kind arrive for the logged-in account
TranslateSpec == LoggedIn /\ [][NextTranslate]_vars

\* the goroutine over the QR channel of client h, fed items of every kind
\* and code
PairStep(h) ==
    \/ \E c \in Codes : ConsumerRecv(h, "code", c)
    \/ \E k \in PairKinds \ {"code"} : ConsumerRecv(h, k, NoCode)
    \/ ConsumerReturn(h)
    \/ EngineCloseQR(h)
    \/ ConsumerExit(h)

\* the main loop logs one account in and out while the engine feeds the
\* QR channels
NextPair ==
    \/ SessionStep(MainThread, PairingIds)
    \/ \E h \in Clients : PairStep(h)

PairSpec == Init /\ [][NextPair]_vars

\* Scheduling of the goroutine over a QR channel: the C callback it is in
\* returns, and the runtime runs the goroutine when its range loop can end.
\* The main loop is under Progress and Acquire as above; nothing is assumed
\* about the engine.
ConsumerFairness ==
    \A h \in Clients :
       WF_vars(ConsumerReturn(h)) /\ WF_vars(ConsumerExit(h))

PairLiveSpec ==
    /\ Init /\ [][NextPair]_vars
    /\ WF_vars(Progress(MainThread)) /\ SF_vars(Acquire(MainThread))
    /\ ConsumerFairness

\* the main loop has logged account 1 in without a stored device identity:
\* client 1 is connected and in the registry, and the goroutine over its QR
\* channel is waiting for an item
Paired ==
    /\ mu = NoThread
    /\ accounts = [i \in Ids |-> IF i = 1 THEN 1 ELSE NoClient]
    /\ nextClient = 1
    /\ owner = [h \in Clients |-> IF h = 1 THEN 1 ELSE NoId]
    /\ pairing = [h \in Clients |-> h = 1]
    /\ cancelled = [h \in Clients |-> FALSE]
    /\ connected = [h \in Clients |-> h = 1]
    /\ disconnects = [h \in Clients |-> 0]
    /\ qrChan = [h \in Clients |-> IF h = 1 THEN "open" ELSE "nil"]
    /\ qrCount = 0
    /\ cons = [h \in Clients |-> IF h = 1 THEN "recv" ELSE "none"]
    /\ consItem = [h \in Clients |-> NoItem]
    /\ trans = [h \in Clients |-> NoTrans]
    /\ evCount = 0
    /\ scen = [h \in Clients |-> "start"]
    /\ outConnected = [h \in Clients |-> 0]
    /\ outMessages = [h \in Clients |-> 0]
    /\ copies = 0
    /\ pc = [t \in Threads |-> "idle"]
    /\ call = [t \in Threads |->
                 IF t = MainThread
                    THEN [NoCall EXCEPT !.op = "login", !.ret = 0,
                                        !.ecalls = 2]
                    ELSE NoCall]
    /\ loginHist = [i \in Ids |-> "none"]
    /\ recording = FALSE

\* gowhatsapp_go_logout called on thread t for the accounts in ids
LogoutStep(t, ids) ==
    \/ \E id \in ids : CallLogout(t, id)
    \/ LogoutRemove(t)
    \/ LogoutCancel(t)
    \/ LogoutDisconnect(t)

\* after that login the second thread uses the sessions, the engine
\* delivers pairing items and events, and the main loop logs the account
\* out
NextFrame ==
    \/ LogoutStep(MainThread, PairingIds)
    \/ UseStep(UserThread)
    \/ \E h \in Clients : EngineStep(h)

FrameSpec == Paired /\ [][NextFrame]_vars

C2_NoRecordAfterFailedLogin ==
    [][\A t \in Threads, id \in Ids :
         (LoginReturning(t, id) /\ pc[t] = "login_err")
            => accounts'[id] = NoClient]_vars

\* the positions at which a thread is inside a call of the whatsmeow client
EngineCallPcs ==
    {"login_qr", "login_connect", "logout_disconnect", "send_engine",
     "typing_engine", "read_engine"}

\* C3 as stated: a thread that is inside an engine call does not hold mu.
C3_NoEngineCallUnderLock ==
    \A t \in Threads : pc[t] \in EngineCallPcs => mu # t

\* the client of id was disconnected by a logout that has returned, and no
\* login on id has succeeded since (clients are numbered in creation order)
LoggedOut(id) ==
    \E h \in Clients :
        /\ owner[h] = id
        /\ disconnects[h] >= 1
        /\ \A h2 \in Clients : (h2 > h /\ owner[h2] = id) => ~connected[h2]

\* the C callbacks the goroutine over qrChan can be inside
PairCallbacks == {"show_qr_code", "connected", "error"}

\* C4 as stated: once the logout that removed the record of a client has
\* returned, the goroutine over the client's QR channel forwards no further
\* pairing item (code, success or timeout) to the host.
C4_NoPairingEventAfterLogout ==
    [][\A h \in Clients :
         disconnects[h] >= 1
            => ~(cons[h] = "recv" /\ cons'[h] \in PairCallbacks)]_vars

\* the lookup of a send_message, send_typing or mark_read on id by thread t
\* happens in this step
LookingUp(t, id) ==
    /\ pc[t] \in {"send_lock", "typing_lock", "read_lock"}
    /\ call[t].id = id
    /\ pc'[t] # pc[t]

\* C5 as stated: between the return of a logout on id and the next
\* successful login on id, every send_message, send_typing and mark_read on
\* id finds no record: it returns without an engine call, send_message
\* with -1.
C5_NotFoundAfterLogout ==
    [][\A t \in Threads, id \in Ids :
         (LoggedOut(id) /\ LookingUp(t, id))
            => /\ pc'[t] = "idle"
               /\ ~call'[t].found
               /\ call[t].op = "send" => call'[t].ret = -1]_vars

\* C6 as stated: when the first-time pairing scenario has run to its end for
\* a client (code items, a success item, then the Connected event) and the
\* deliveries have returned, bridge_connected has been called exactly once
\* for it.
C6_ConnectedExactlyOnce ==
    \A h \in Clients :
        (/\ scen[h] = "connected"
         /\ trans[h].st = "idle"
         /\ cons[h] \in {"recv", "done"})
            => outConnected[h] = 1

\* thread t is between the removal of the record of client h and the return
\* of its logout
LoggingOut(t, h) ==
    /\ pc[t] \in {"logout_cancel", "logout_disconnect"}
    /\ call[t].h = h

\* C7: every client put into a record is disconnected at most once, not
\* while its record is in the registry, and exactly once when the logout
\* that removed its record has returned.
C7_DisconnectedExactlyOnce ==
    \A h \in 1..nextClient :
        /\ disconnects[h] <= 1
        /\ accounts[owner[h]] = h => disconnects[h] = 0
        /\ (accounts[owner[h]] # h /\ \A t \in Threads : ~LoggingOut(t, h))
              => disconnects[h] = 1

\* two logouts have returned, one removed the record of client 1 and the
\* other found nothing, and client 1 was disconnected
C7_Witness ==
    /\ pc[1] = "idle" /\ call[1].op = "logout" /\ call[1].found
    /\ pc[2] = "idle" /\ call[2].op = "logout" /\ ~call[2].found
    /\ nextClient = 1
    /\ accounts[1] = NoClient
    /\ disconnects[1] = 1

\* C8: a logout that finds no record changes neither the registry nor any
\* client, makes no engine call and reports nothing; a logout that finds
\* one cancels the context only after the record is out of the registry and
\* disconnects the client only after the context is cancelled.
C8_LogoutNoOpAndOrder ==
    [][/\ \A t \in Threads :
            (/\ pc[t] = "logout_lock"
             /\ pc'[t] # "logout_lock"
             /\ accounts[call[t].id] = NoClient)
               => /\ pc'[t] = "idle"
                  /\ call'[t].ecalls = 0
                  /\ call'[t].errs = 0
                  /\ UNCHANGED << accounts, nextClient, clientVars,
                                  engineVars >>
       /\ \A h \in Clients :
            /\ (cancelled'[h] /\ ~cancelled[h])
                  => (accounts[owner[h]] # h /\ disconnects[h] = 0)
            /\ disconnects'[h] > disconnects[h]
                  => (accounts[owner[h]] # h /\ cancelled[h])]_vars

\* thread 1's logout found nothing and did nothing; thread 2's logout has
\* removed, cancelled and disconnected client 1
C8_Witness ==
    /\ pc[1] = "idle" /\ call[1].op = "logout" /\ ~call[1].found
    /\ call[1].ecalls = 0
    /\ pc[2] = "idle" /\ call[2].op = "logout" /\ call[2].found
    /\ call[2].ecalls = 1
    /\ cancelled[1]
    /\ disconnects[1] = 1

C10_NoSendOnInvalidAddress ==
    \A t \in Threads :
        (call[t].op = "send" /\ call[t].perr)
           => /\ pc[t] \in {"send_err", "idle"}
              /\ call[t].ecalls = 0
              /\ pc[t] = "idle" => call[t].ret = -1

\* a send_message with an existing record and an unparsable jid has
\* returned -1 after reporting the error
C10_Witness ==
    \E t \in Threads :
        /\ pc[t] = "idle"
        /\ call[t].op = "send"
        /\ call[t].found /\ call[t].perr
        /\ call[t].ret = -1
        /\ call[t].errs = 1

\* C11 as stated: a send_message whose engine call was made and failed
\* reports nothing to the host but its return value: no C.bridge_error call
\* is made for it.
C11_NoErrorEventOnSendFailure ==
    \A t \in Threads :
        (call[t].op = "send" /\ call[t].ecalls = 1
            /\ pc[t] \in {"send_err", "idle"})
           => call[t].errs = 0

\* the content fields in the order of their priority
BranchOrder ==
    << "conversation", "extended", "image", "video", "document", "sticker",
       "audio", "reaction" >>

\* the content field of branch b is populated in m
FieldSet(m, b) ==
    CASE b = "conversation" -> m.conv # ""
      [] b = "extended" -> m.ext # << >>
      [] b = "image" -> m.img # << >>
      [] b = "video" -> m.vid # << >>
      [] b = "document" -> m.doc # << >>
      [] b = "sticker" -> m.sticker
      [] b = "audio" -> m.audio
      [] b = "reaction" -> m.reaction # << >>

\* the text that branch b gives for m
BranchText(m, b) ==
    CASE b = "conversation" -> m.conv
      [] b = "extended" -> m.ext[1]
      [] b = "image" -> "[Image] " \o m.img[1]
      [] b = "video" -> "[Video] " \o m.vid[1]
      [] b = "document" -> "[Document] " \o m.doc[1]
      [] b = "sticker" -> "[Sticker]"
      [] b = "audio" -> "[Voice Message]"
      [] b = "reaction" -> "[Reaction: " \o m.reaction[1] \o "]"
      [] OTHER -> "[Unsupported message type]"

\* C12: for every message a handler is given, the branch taken is the first
\* in the priority order whose content field is populated, the fallback
\* exactly when none is, and the text is the one of that branch.
C12_ClassificationByPriority ==
    \A h \in Clients :
        trans[h].ev \in {"Message", "receive_message"} =>
            LET m == trans[h].m
                c == ClassifyMessage(m)
                n == Len(BranchOrder)
            IN  /\ c.branch = "unsupported"
                      <=> \A i \in 1..n : ~FieldSet(m, BranchOrder[i])
                /\ \A i \in 1..n :
                      c.branch = BranchOrder[i]
                          <=> /\ FieldSet(m, BranchOrder[i])
                              /\ \A j \in 1..(i - 1) :
                                    ~FieldSet(m, BranchOrder[j])
                /\ c.text = BranchText(m, c.branch)

\* a message with a conversation string and an image, and other fields set
\* as well, is inside C.bridge_receive_message with the conversation string
\* as its text
C12_Witness ==
    \E h \in Clients :
        /\ trans[h].st = "cb"
        /\ trans[h].ev = "receive_message"
        /\ trans[h].m.conv = "hi"
        /\ trans[h].m.img = << "c" >>
        /\ trans[h].m.ext # << >>
        /\ ClassifyMessage(trans[h].m).text = "hi"

\* C13: a handler given a message enters C.bridge_receive_message if and
\* only if the classified text is not empty, and it enters it once: from
\* the callback the handler returns.
C13_MessageReceivedIffText ==
    [][\A h \in Clients :
         /\ (trans[h].st = "handle" /\ trans[h].ev = "Message"
                /\ trans'[h] # trans[h])
               => IF ClassifyMessage(trans[h].m).text = ""
                     THEN /\ trans'[h].st = "idle"
                          /\ outMessages'[h] = outMessages[h]
                     ELSE /\ trans'[h].st = "cb"
                          /\ trans'[h].ev = "receive_message"
                          /\ outMessages'[h] = outMessages[h] + 1
         /\ (trans[h].st = "cb" /\ trans'[h] # trans[h])
               => /\ trans'[h].st = "idle"
                  /\ outMessages'[h] = outMessages[h]]_vars

\* a message has been handled to the end without a call of
\* C.bridge_receive_message: its text was empty
C13_Witness ==
    \E h \in Clients :
        /\ connected[h]
        /\ evCount = 1
        /\ trans[h].st = "idle"
        /\ outMessages[h] = 0

\* C14 as stated: the outward calls of a session happen in the order in
\* which the engine emitted their events.  An instance: while an event that
\* was handed to the handler of a client still waits for its outward call,
\* no outward call is made for a pairing item of the same client, which the
\* engine emitted later.
C14_OutwardCallsInEmissionOrder ==
    [][\A h \in Clients :
         (trans[h].st = "handle"
             /\ EventCallback(trans[h].ev, trans[h].m) # NoEvent)
            => ~(cons[h] = "recv" /\ cons'[h] \in PairCallbacks)]_vars

\* C15 as stated: the goroutine over the QR channel of a client and the
\* event handler of the same client are never inside C callbacks at the
\* same time.
C15_OneCallbackPerSession ==
    \A h \in Clients : ~(cons[h] \in PairCallbacks /\ trans[h].st = "cb")

\* C16 as stated: when a login without a device identity calls
\* client.Connect(), the goroutine over the QR channel is already running.
C16_ConsumerRunsBeforeConnect ==
    \A t \in Threads :
        (pc[t] = "login_connect" /\ pairing[call[t].h])
           => cons[call[t].h] # "none"

\* C17: a send_typing that finds no record, or whose jid fails ParseJID,
\* returns without an engine call, without reporting anything and without
\* touching the registry or a client; any other send_typing makes exactly
\* one SendChatPresence call, Composing when typing # 0 and Paused when
\* typing = 0, and returns.
C17_TypingNoOpOrOnePresence ==
    [][\A t \in Threads :
         /\ (pc[t] = "typing_lock" /\ pc'[t] # pc[t])
               => IF accounts[call[t].id] = NoClient
                       \/ ParseJIDFails(call[t].arg)
                     THEN /\ pc'[t] = "idle"
                          /\ call'[t].ecalls = 0
                          /\ call'[t].errs = 0
                          /\ call'[t].sent = "none"
                          /\ UNCHANGED << accounts, nextClient, clientVars,
                                          engineVars, copies >>
                     ELSE /\ pc'[t] = "typing_engine"
                          /\ call'[t].ecalls = 0
         /\ (pc[t] = "typing_engine" /\ pc'[t] # pc[t])
               => /\ pc'[t] = "idle"
                  /\ call'[t].ecalls = 1
                  /\ call'[t].errs = 0
                  /\ call'[t].sent = IF call[t].typing = 0 THEN "paused"
                                                          ELSE "composing"
                  /\ UNCHANGED << accounts, copies >>]_vars

\* a send_typing on an account with a record and a jid that parses has
\* sent Composing and returned
C17_Witness ==
    \E t \in Threads :
        /\ pc[t] = "idle"
        /\ call[t].op = "typing"
        /\ call[t].found /\ ~call[t].perr
        /\ call[t].ecalls = 1
        /\ call[t].sent = "composing"

\* C18: a mark_read that finds no record or has an empty msgID returns
\* without an engine call; any other mark_read, also one whose chat or
\* sender jid fails ParseJID, makes exactly one MarkRead call and returns.
C18_MarkReadNoOpOrOneReceipt ==
    [][\A t \in Threads :
         /\ (pc[t] = "read_lock" /\ pc'[t] # pc[t])
               => IF accounts[call[t].id] = NoClient \/ call[t].msgID = ""
                     THEN /\ pc'[t] = "idle"
                          /\ call'[t].ecalls = 0
                     ELSE /\ pc'[t] = "read_engine"
                          /\ call'[t].ecalls = 0
         /\ (pc[t] = "read_engine" /\ pc'[t] # pc[t])
               => /\ pc'[t] = "idle"
                  /\ call'[t].ecalls = 1]_vars

\* a mark_read with a message id and a jid that does not parse has made its
\* MarkRead call and returned
C18_Witness ==
    \E t \in Threads :
        /\ pc[t] = "idle"
        /\ call[t].op = "read"
        /\ call[t].found /\ call[t].perr
        /\ call[t].ecalls = 1

RECURSIVE SumOver(_, _)
\* the sum of f[x] for x in S
SumOver(f, S) ==
    IF S = {} THEN 0
    ELSE LET x == CHOOSE y \in S : TRUE IN f[x] + SumOver(f, S \ {x})

\* the copies made for the C callbacks that have not returned: those of the
\* handlers, of the goroutines over the QR channels, and of reportError on
\* the host threads
CopiesInUse ==
    SumOver([h \in Clients |->
               IF trans[h].st = "cb" THEN CopiesMade(trans[h].ev) ELSE 0],
            Clients)
    + SumOver([h \in Clients |->
                 IF cons[h] \in PairCallbacks THEN CopiesMade(cons[h]) ELSE 0],
              Clients)
    + SumOver([t \in Threads |->
                 IF pc[t] \in {"login_err", "send_err"}
                    THEN CopiesMade("error") ELSE 0],
              Threads)

\* C19: the C string copies that are allocated and not freed are exactly
\* those made for the callbacks in progress: none is freed before its
\* callback returns or freed twice, and none is left when no callback is in
\* progress.
C19_CopiesFreedAfterCallback == copies = CopiesInUse

\* a message was handed to C.bridge_receive_message with its five copies,
\* the callback has returned, no callback is in progress and no copy is
\* left
C19_Witness ==
    \E h \in Clients :
        /\ outMessages[h] = 1
        /\ trans[h].st = "idle"
        /\ CopiesInUse = 0
        /\ copies = 0

\* C20: every record in the registry holds the client that was built for
\* it by its own login, so no two records hold the same client.
C20_NoSharedClient ==
    /\ \A i \in Ids : accounts[i] # NoClient => owner[accounts[i]] = i
    /\ \A i, j \in Ids :
          (i # j /\ accounts[i] # NoClient) => accounts[i] # accounts[j]

\* logins on both accounts have returned 0 and both records exist
C20_Witness ==
    /\ \A t \in Threads :
          pc[t] = "idle" /\ call[t].op = "login" /\ call[t].ret = 0
    /\ accounts[1] # NoClient
    /\ accounts[2] # NoClient
    /\ accounts[1] # accounts[2]

\* C21 as stated: the envelope of an outward message-received call carries
\* the event's sender address, chat address, message id, display name,
\* timestamp, from-self flag and group flag unchanged.  It fails for a
\* display name that holds a NUL byte.
C21_EnvelopeUnchanged ==
    \A h \in Clients :
       (trans[h].st = "cb" /\ trans[h].ev = "receive_message")
          => LET i == trans[h].m.info
                 e == trans[h].args
             IN  /\ e.sender_jid = i.sender
                 /\ e.chat_jid = i.chat
                 /\ e.message_id = i.id
                 /\ e.push_name = i.pushName
                 /\ e.timestamp = i.ts
                 /\ (e.from_me = 1) = i.fromMe
                 /\ (e.is_group = 1) = i.isGroup

\* C21 amended: every message event with a text is handed to the outward
\* message-received callback of its account, whatever its from-self and
\* group flags, and the envelope carries each of the four strings up to its
\* first NUL byte (so unchanged when it holds none), the timestamp
\* unchanged, and each flag as 1 when set and 0 when not.
C21_EnvelopeUpToFirstNUL ==
    [][\A h \in Clients :
          (/\ trans[h].st = "handle"
           /\ trans[h].ev = "Message"
           /\ ClassifyMessage(trans[h].m).text # ""
           /\ trans'[h] # trans[h])
             => LET i == trans[h].m.info
                    e == trans'[h].args
                IN  /\ trans'[h].st = "cb"
                    /\ trans'[h].ev = "receive_message"
                    /\ e.account = owner[h]
                    /\ e.sender_jid = << Head(i.sender) >>
                    /\ e.chat_jid = << Head(i.chat) >>
                    /\ e.message_id = << Head(i.id) >>
                    /\ e.push_name = << Head(i.pushName) >>
                    /\ e.timestamp = i.ts
                    /\ e.from_me \in {0, 1}
                    /\ e.is_group \in {0, 1}
                    /\ (e.from_me = 1) = i.fromMe
                    /\ (e.is_group = 1) = i.isGroup]_vars

\* a from-self group message whose display name holds a NUL byte is inside
\* the callback, with the name cut at the NUL and both flags 1
C21_Witness ==
    \E h \in Clients :
       /\ trans[h].st = "cb"
       /\ trans[h].ev = "receive_message"
       /\ trans[h].m.info.fromMe
       /\ trans[h].m.info.isGroup
       /\ trans[h].m.info.pushName = << "An", "n" >>
       /\ trans[h].args.push_name = << "An" >>
       /\ trans[h].args.from_me = 1
       /\ trans[h].args.is_group = 1
       /\ trans[h].args.timestamp = 1700000000

\* the positions at which a thread is inside C.bridge_error, called by
\* reportError from gowhatsapp_go_login or gowhatsapp_go_send_message
CallbackPcs == {"login_err", "send_err"}

\* C22 as stated: no outward callback is invoked while the registry lock is
\* held: a thread that is executing an outward call does not hold mu.
C22_NoCallbackUnderLock ==
    \A t \in Threads : pc[t] \in CallbackPcs => mu # t

\* C23: handleEvent turns each engine event into one outward call of the
\* matching kind on the account of its session: Connected into connected,
\* Disconnected into disconnected, LoggedOut(reason) into error with a
\* message that ends with the reason, Presence into presence-update with
\* available = 1 exactly when the event is not unavailable, ChatPresence
\* into typing-notification with composing = 1 exactly when the state is
\* composing; an event of another kind (a receipt, or a kind without a
\* case) produces no call, and after the call handleEvent returns.
C23_EventToMatchingCall ==
    [][\A h \in Clients :
          /\ (trans[h].st = "handle" /\ trans'[h] # trans[h]
              /\ trans[h].ev # "Message")
                => LET k == trans[h].ev
                       m == trans[h].m
                       e == trans'[h].args
                       made(cb) == /\ trans'[h].st = "cb"
                                   /\ trans'[h].ev = cb
                                   /\ e.account = owner[h]
                   IN  CASE k = "Connected" -> made("connected")
                         [] k = "Disconnected" -> made("disconnected")
                         [] k = "LoggedOut" ->
                               /\ made("error")
                               /\ e.message = << "Logged out: " \o m.reason >>
                         [] k = "Presence" ->
                               /\ made("presence_update")
                               /\ e.available \in {0, 1}
                               /\ (e.available = 1) = ~m.unavailable
                         [] k = "ChatPresence" ->
                               /\ made("typing_notification")
                               /\ e.composing \in {0, 1}
                               /\ (e.composing = 1) = (m.state = "composing")
                         [] OTHER -> trans'[h].st = "idle"
          /\ (trans[h].st = "cb" /\ trans'[h] # trans[h])
                => trans'[h].st = "idle"]_vars

\* the handler is inside presence-update for an unavailable contact, with
\* available = 0
C23_Witness ==
    \E h \in Clients :
       /\ trans[h].st = "cb"
       /\ trans[h].ev = "presence_update"
       /\ trans[h].m.unavailable
       /\ trans[h].args.available = 0
       /\ trans[h].args.account = 1

\* C24: the goroutine over the QR channel hands each item it receives to
\* the host as one outward call on the account of its login, and takes the
\* next item only after that call has returned: a "code" item as
\* show-pairing-code with the item's code unchanged, "success" as
\* connected, "timeout" as error with the advice to reconnect and retry; an
\* item of any other kind leads to no call.
C24_PairingItemToOneCall ==
    [][\A h \in Clients :
          /\ (cons[h] = "recv" /\ cons'[h] \notin {"recv", "done"})
                => LET it == consItem'[h].evt
                       e == consItem'[h].args
                   IN  CASE it.Event = "code" ->
                               /\ cons'[h] = "show_qr_code"
                               /\ e.account = owner[h]
                               /\ e.code = it.Code
                         [] it.Event = "success" ->
                               /\ cons'[h] = "connected"
                               /\ e.account = owner[h]
                         [] it.Event = "timeout" ->
                               /\ cons'[h] = "error"
                               /\ e.account = owner[h]
                               /\ e.message =
                                    << "QR code timed out - reconnect to retry" >>
                         [] OTHER ->
                               /\ cons'[h] = "no_case"
                               /\ e = NoArgs
          /\ (cons[h] \notin {"none", "recv", "done"} /\ cons'[h] # cons[h])
                => (cons'[h] = "recv" /\ qrCount' = qrCount)
          /\ qrCount' # qrCount
                => \E h2 \in Clients :
                      cons[h2] = "recv" /\ cons'[h2] \notin {"recv", "done"}]_vars

\* the goroutine is inside show-pairing-code with the second code, after an
\* earlier item
C24_Witness ==
    \E h \in Clients :
       /\ cons[h] = "show_qr_code"
       /\ consItem[h].evt.Code = << "2@ref2,bm9pc2U=,aWQ=,YWR2" >>
       /\ consItem[h].args.code = << "2@ref2,bm9pc2U=,aWQ=,YWR2" >>
       /\ consItem[h].args.account = 1
       /\ qrCount = 2

\* C25: once the engine has closed the QR channel of a client, the
\* goroutine over it ends (the callback it may be in returns and the range
\* loop exits), and no step of a running goroutine locks or unlocks mu:
\* the goroutine never waits for the registry lock and never holds it.
C25_ConsumerEndsWithoutLock ==
    /\ \A h \in Clients :
          (qrChan[h] = "closed" /\ cons[h] # "none") ~> (cons[h] = "done")
    /\ [][\A h \in Clients :
             (cons[h] # "none" /\ cons'[h] # cons[h]) => mu' = mu]_vars

\* a goroutine has ended after forwarding an item, while a later login
\* holds the registry lock
C25_Witness ==
    \E h \in Clients :
       /\ cons[h] = "done"
       /\ qrChan[h] = "closed"
       /\ qrCount >= 1
       /\ mu = MainThread

\* C26: a login that fails in a setup step (opening the store, fetching the
\* device, requesting the QR channel, connecting) has called reportError
\* exactly once when it returns, and returns -1 from inside that call's
\* branch; a login that returns 0 has called it not at all.  (A login that
\* returns straight from the `exists` test is no setup failure.)
C26_OneErrorPerFailedSetup ==
    [][\A t \in Threads :
          (call[t].op = "login" /\ pc[t] # "idle" /\ pc'[t] = "idle")
             => /\ call'[t].ret \in {0, -1}
                /\ call'[t].ret = 0 => call'[t].errs = 0
                /\ (call'[t].ret # 0 /\ pc[t] # "login_lock")
                      => (call'[t].errs = 1 /\ pc[t] = "login_err")
                /\ pc[t] = "login_err" => call'[t].ret = -1]_vars

\* a login has returned -1 after one error report, having failed in
\* client.Connect() after GetQRChannel succeeded
C26_Witness ==
    \E t \in Threads :
       /\ pc[t] = "idle"
       /\ call[t].op = "login"
       /\ call[t].ret = -1
       /\ call[t].errs = 1
       /\ call[t].ecalls = 2

\* C27: a login on an id that has a record when the login gets the lock
\* returns -1 and changes nothing else: the registry, the record's client,
\* its cancellation and connection state, the goroutines, the channel and
\* the lock stay as they were, no client is created, no engine call is made
\* and no error is reported.
C27_DuplicateLoginChangesNothing ==
    [][\A t \in Threads :
          (/\ call[t].op = "login"
           /\ pc[t] = "login_lock"
           /\ pc'[t] # pc[t]
           /\ accounts[call[t].id] # NoClient)
             => /\ pc'[t] = "idle"
                /\ call'[t].ret = -1
                /\ call'[t].ecalls = 0
                /\ call'[t].errs = 0
                /\ UNCHANGED << mu, accounts, nextClient, clientVars,
                                engineVars, copies >>]_vars

\* a duplicate login has returned -1 without an engine call or an error
\* report, and the record of the connected client is still there
C27_Witness ==
    \E t \in Threads, id \in Ids :
       /\ pc[t] = "idle"
       /\ call[t].op = "login"
       /\ call[t].ret = -1
       /\ call[t].ecalls = 0
       /\ call[t].errs = 0
       /\ accounts[id] # NoClient
       /\ connected[accounts[id]]
       /\ ~cancelled[accounts[id]]

\* C28: the record of an id changes only in the locked section of a logout
\* on that id: no delivery of an engine event (Disconnected and LoggedOut
\* included) or of a pairing item (timeout included), and no step of
\* send_message, send_typing or mark_read, changes the registry; so after
\* the login on an id has returned 0 its record is in the registry until a
\* logout on the id has removed it.
C28_OnlyLogoutRemovesRecord ==
    /\ [][\A id \in Ids :
             accounts'[id] # accounts[id]
                => \E t \in Threads :
                      /\ call[t].op = "logout"
                      /\ call[t].id = id
                      /\ pc[t] = "logout_lock"
                      /\ pc'[t] # pc[t]]_vars
    /\ [](accounts[1] # 1
             => \/ cancelled[1]
                \/ /\ call[MainThread].op = "logout"
                   /\ call[MainThread].h = 1
                   /\ pc[MainThread] = "logout_cancel")

\* the record is still there while the goroutine over the QR channel
\* reports the timeout, the handler reports LoggedOut, and a send_message
\* has returned 0
C28_Witness ==
    \E h \in Clients :
       /\ cons[h] = "error"
       /\ trans[h].st = "cb"
       /\ trans[h].ev = "error"
       /\ accounts[owner[h]] = h
       /\ pc[UserThread] = "idle"
       /\ call[UserThread].op = "send"
       /\ call[UserThread].ret = 0

\* C29 as stated: once the logout that tore down the session of a client
\* has returned (its Disconnect has been called), the handleEvent of that
\* client starts no outward callback any more.
C29_NoEventCallbackAfterLogout ==
    [][\A h \in Clients :
          disconnects[h] >= 1
             => ~(trans[h].st = "handle" /\ trans'[h].st = "cb")]_vars

\* C30 as stated: for every account id, at most one client that Connect()
\* has connected and Disconnect() has not yet disconnected exists at any
\* moment.
C30_OneConnectedClientPerId ==
    \A id \in Ids :
       Cardinality({h \in Clients :
                       /\ owner[h] = id
                       /\ connected[h]
                       /\ disconnects[h] = 0}) <= 1

\* the positions at which a command is about to call the engine on the
\* client it looked up: SendMessage, SendChatPresence, MarkRead
CommandEnginePcs == {"send_engine", "typing_engine", "read_engine"}

\* C31 as stated: send_message, send_typing and mark_read never call the
\* engine on a client that a logout has already disconnected: the engine
\* call of a command is made before the Disconnect of its client, or not
\* at all.
C31_NoEngineCallAfterDisconnect ==
    [][\A t \in Threads :
          (pc[t] \in CommandEnginePcs /\ pc'[t] # pc[t])
             => disconnects[call[t].h] = 0]_vars

====
